---------------------------- MODULE Spec2Model ----------------------------
(* A model of rtt-console (src/src/main.rs, src/src/session.rs): the probe   *)
(* selector parser, probe selection, session setup and the bridge loop.     *)
(* Strings are sequences of one-character strings; Option<T> is a sequence  *)
(* of length 0 (None) or 1 (Some).                                          *)
EXTENDS Integers, Sequences, FiniteSets, TLC

(***************************************************************************)
(* Option and small helpers                                                *)
(***************************************************************************)
None == <<>>
Some(x) == <<x>>
IsSome(o) == Len(o) = 1
Unwrap(o) == o[1]

Range(s) == { s[i] : i \in 1..Len(s) }

(***************************************************************************)
(* Bounds of the model                                                     *)
(***************************************************************************)
\* the largest number of colon-separated parts of an enumerated selector
MaxParts == 4
\* the largest number of probes the enumeration returns
MaxProbes == 2
\* the largest number of terminal events delivered during a run
MaxKeys == 2
\* the largest number of bytes the target puts on the up channel during a run
MaxUp == 2

(***************************************************************************)
(* u16::from_str_radix(src, 16), as ProbeFilter::from_str calls it          *)
(***************************************************************************)
U16Max == 65535

HexDigits == << "0","1","2","3","4","5","6","7","8","9",
                "a","b","c","d","e","f" >>
HexDigitsUpper == << "0","1","2","3","4","5","6","7","8","9",
                     "A","B","C","D","E","F" >>

\* char::to_digit(16): Some(value) for 0-9, a-f, A-F, None otherwise
to_digit(c) ==
  IF \E i \in 1..16 : HexDigits[i] = c \/ HexDigitsUpper[i] = c
  THEN Some((CHOOSE i \in 1..16 : HexDigits[i] = c \/ HexDigitsUpper[i] = c) - 1)
  ELSE None

ParseOk(v) == [ok |-> TRUE, val |-> v, err |-> "none"]
ParseErr(e) == [ok |-> FALSE, val |-> 0, err |-> e]

\* the digit loop: per digit, an invalid digit is reported before an overflow
RECURSIVE digits_fold(_, _)
digits_fold(digits, acc) ==
  IF digits = <<>> THEN ParseOk(acc)
  ELSE LET d == to_digit(Head(digits)) IN
       IF ~IsSome(d) THEN ParseErr("InvalidDigit")
       ELSE IF acc * 16 + Unwrap(d) > U16Max THEN ParseErr("PosOverflow")
       ELSE digits_fold(Tail(digits), acc * 16 + Unwrap(d))

from_str_radix_EmptyIsZero(src) ==
  IF src = <<"+">> \/ src = <<"-">> THEN ParseErr("InvalidDigit")
  ELSE IF src # <<>> /\ Head(src) = "+" THEN digits_fold(Tail(src), 0)
  ELSE digits_fold(src, 0)

from_str_radix(src) ==
  IF src = <<>> THEN ParseErr("Empty")
  ELSE IF src = <<"+">> \/ src = <<"-">> THEN ParseErr("InvalidDigit")
  ELSE IF Head(src) = "+" THEN digits_fold(Tail(src), 0)
  ELSE digits_fold(src, 0)

(***************************************************************************)
(* ProbeFilter and ProbeFilter::from_str                                   *)
(***************************************************************************)
ProbeFilter(vp, ser) == [vid_pid |-> vp, serial |-> ser]

\* str::split(':'): always at least one part; "" splits to [""]
RECURSIVE split(_)
split(s) ==
  IF \A i \in 1..Len(s) : s[i] # ":" THEN << s >>
  ELSE LET k == CHOOSE i \in 1..Len(s) :
                  s[i] = ":" /\ \A j \in 1..(i-1) : s[j] # ":"
       IN << SubSeq(s, 1, k - 1) >> \o split(SubSeq(s, k + 1, Len(s)))

\* error values: the error type and what its message says
Error(k, d) == [kind |-> k, detail |-> d]
NoError == Error("none", "")
\* anyhow!("invalid probe filter")
InvalidProbeFilter == Error("anyhow", "invalid probe filter")
\* a ParseIntError of u16::from_str_radix, converted by `?`
ParseIntError(k) == Error("ParseIntError", k)

FilterOk(f) == [ok |-> TRUE, filter |-> Some(f), err |-> NoError]
FilterErr(e) == [ok |-> FALSE, filter |-> None, err |-> e]

\* Some((from_str_radix(vid)?, from_str_radix(pid)?)): vid is parsed first
vid_pid_of_Swapped(vid, pid, ser) ==
  LET v == from_str_radix(vid)
      p == from_str_radix(pid)
  IN IF ~v.ok THEN FilterErr(ParseIntError(v.err))
     ELSE IF ~p.ok THEN FilterErr(ParseIntError(p.err))
     ELSE FilterOk(ProbeFilter(Some(<<p.val, v.val>>), ser))

vid_pid_of(vid, pid, ser) ==
  LET v == from_str_radix(vid)
      p == from_str_radix(pid)
  IN IF ~v.ok THEN FilterErr(ParseIntError(v.err))
     ELSE IF ~p.ok THEN FilterErr(ParseIntError(p.err))
     ELSE FilterOk(ProbeFilter(Some(<<v.val, p.val>>), ser))

from_str_EmptySerialIsNone(s) ==
  LET parts == split(s) IN
  CASE Len(parts) = 1 ->
         FilterOk(ProbeFilter(None, IF parts[1] = <<>> THEN None ELSE Some(parts[1])))
    [] Len(parts) = 2 -> vid_pid_of(parts[1], parts[2], None)
    [] Len(parts) = 3 -> vid_pid_of(parts[1], parts[2], Some(parts[3]))
    [] OTHER -> FilterErr(InvalidProbeFilter)

from_str(s) ==
  LET parts == split(s) IN
  CASE Len(parts) = 1 -> FilterOk(ProbeFilter(None, Some(parts[1])))
    [] Len(parts) = 2 -> vid_pid_of(parts[1], parts[2], None)
    [] Len(parts) = 3 -> vid_pid_of(parts[1], parts[2], Some(parts[3]))
    [] OTHER -> FilterErr(InvalidProbeFilter)

(***************************************************************************)
(* Probes (DebugProbeInfo) and filter()                                    *)
(***************************************************************************)
DebugProbeInfo(id, vid, pid, ser) ==
  [identifier |-> id, vendor_id |-> vid, product_id |-> pid, serial_number |-> ser]

SER123 == << "S","E","R","1","2","3" >>
SER9 == << "S","E","R","9" >>

\* the probes a run may find: same ids with different serials, a probe with
\* no serial number, and another vendor's probe with the serial of the first
ProbeA == DebugProbeInfo("A", 6699, 15437, Some(SER123))
ProbeB == DebugProbeInfo("B", 6699, 15437, Some(SER9))
ProbeC == DebugProbeInfo("C", 6699, 15437, None)
ProbeD == DebugProbeInfo("D", 1155, 15437, Some(SER123))
Probes == { ProbeA, ProbeB, ProbeC, ProbeD }

\* the closure of filter(): does `selector` keep `probe`
filter_closure_BothIdsDiffer(probe, selector) ==
  IF IsSome(selector.vid_pid)
     /\ ( probe.vendor_id # Unwrap(selector.vid_pid)[1]
          /\ probe.product_id # Unwrap(selector.vid_pid)[2] )
  THEN FALSE
  ELSE IF IsSome(selector.serial)
          /\ probe.serial_number # Some(Unwrap(selector.serial))
  THEN FALSE
  ELSE TRUE

filter_closure(probe, selector) ==
  IF IsSome(selector.vid_pid)
     /\ ( probe.vendor_id # Unwrap(selector.vid_pid)[1]
          \/ probe.product_id # Unwrap(selector.vid_pid)[2] )
  THEN FALSE
  ELSE IF IsSome(selector.serial)
          /\ probe.serial_number # Some(Unwrap(selector.serial))
  THEN FALSE
  ELSE TRUE

\* probes.iter().filter(closure).cloned().collect()
RECURSIVE filter_FirstOnly(_, _)
filter_FirstOnly(probes, selector) ==
  IF probes = <<>> THEN <<>>
  ELSE IF filter_closure(Head(probes), selector)
       THEN << Head(probes) >>
       ELSE filter_FirstOnly(Tail(probes), selector)

RECURSIVE filter(_, _)
filter(probes, selector) ==
  IF probes = <<>> THEN <<>>
  ELSE IF filter_closure(Head(probes), selector)
       THEN << Head(probes) >> \o filter(Tail(probes), selector)
       ELSE filter(Tail(probes), selector)

(***************************************************************************)
(* print(): the lines written to stdout                                    *)
(***************************************************************************)
Line(k, n, pr) == [kind |-> k, num |-> n, link |-> pr]

print_FromOne(probes) ==
  IF probes # <<>>
  THEN << Line("the following probes were found:", -1, None) >>
       \o [ i \in 1..Len(probes) |-> Line("[{num}]: {link:?}", i, Some(probes[i])) ]
  ELSE << Line("Error: {NO_PROBE_FOUND_ERR}", -1, None) >>

print(probes) ==
  IF probes # <<>>
  THEN << Line("the following probes were found:", -1, None) >>
       \o [ i \in 1..Len(probes) |-> Line("[{num}]: {link:?}", i - 1, Some(probes[i])) ]
  ELSE << Line("Error: {NO_PROBE_FOUND_ERR}", -1, None) >>

(***************************************************************************)
(* State                                                                   *)
(***************************************************************************)
VARIABLES
  pc,               \* where main() is
  status,           \* "running", "failed" (main returned Err), "panicked", "ok"
  err,              \* the error main() returned
  env,              \* the run's surroundings: link kind, keys typed, bytes emitted
  opts,             \* the parsed command line (Opts)
  hw,               \* the probes present: what Probe::list_all() returns
  selector,         \* open(): the result of parsing --probe, once parsed
  filtered_probes,  \* open(): the candidates, once computed
  probe,            \* the probe that was opened
  log,              \* calls made to the probe library during setup, in order
  stdout,           \* lines written by print()
  advisory,         \* the connect-under-reset help was written to stderr
  rtt,              \* the channels Rtt::attach found (channel 0 down / up)
  key,              \* loop: the result of read_char() in this tick
  event,            \* loop: what read_char() last took from the terminal, if anything
  buf,              \* loop: buf[0]
  count,            \* loop: what up_channel.read returned
  typed,            \* bytes read_char() has produced so far, in order
  down,             \* bytes the down channel has accepted so far, in order
  upbuf,            \* the up channel's ring buffer: bytes not yet read
  got,              \* bytes read from the up channel so far, in order
  term,             \* characters printed on the terminal so far, in order
  tickOps           \* the calls of the current (or just finished) tick, in order

setupVars == << opts, hw, selector, filtered_probes, probe, log, stdout, advisory, rtt >>
loopVars == << key, event, buf, count, typed, down, upbuf, got, term, tickOps >>
vars == << pc, status, err, env, opts, hw, selector, filtered_probes, probe, log,
           stdout, advisory, rtt, key, event, buf, count, typed, down, upbuf, got, term,
           tickOps >>

Opts(cdp, cur, pr, sp) ==
  [chip |-> "chip", chip_description_path |-> cdp, connect_under_reset |-> cur,
   probe |-> pr, speed |-> sp]

Env(l, k, u) == [link |-> l, keys |-> k, up |-> u]

\* main returns Err(e): the process ends with a failure status
Fail(e) == pc' = "exit" /\ status' = "failed" /\ err' = e
\* a panic (unwrap on None) ends the process too
Panic(e) == pc' = "exit" /\ status' = "panicked" /\ err' = e
Goto(l) == pc' = l /\ UNCHANGED << status, err >>

(***************************************************************************)
(* lookup_probe_target                                                     *)
(***************************************************************************)
lookup_calls_LookupFirst ==
  IF IsSome(opts.chip_description_path)
  THEN << "get_target_by_name", "fs::File::open", "add_target_from_yaml" >>
  ELSE << "get_target_by_name" >>

lookup_calls ==
  IF IsSome(opts.chip_description_path)
  THEN << "fs::File::open", "add_target_from_yaml", "get_target_by_name" >>
  ELSE << "get_target_by_name" >>

\* every call may fail; the calls after a failed one are not made
LookupProbeTarget ==
  /\ pc = "lookup_probe_target"
  /\ \E n \in 1..Len(lookup_calls), ok \in BOOLEAN :
       /\ ok => n = Len(lookup_calls)
       /\ log' = log \o SubSeq(lookup_calls, 1, n)
       /\ IF ok THEN Goto("open") ELSE Fail(Error("lookup", lookup_calls[n]))
  /\ UNCHANGED << env, opts, hw, selector, filtered_probes, probe, stdout, advisory, rtt >>
  /\ UNCHANGED loopVars

(***************************************************************************)
(* open                                                                    *)
(***************************************************************************)
\* filtered_probes.len() > 1
more_than_one_OffByOne(cands) == Len(cands) > 2
more_than_one(cands) == Len(cands) > 1

NoProbeFound == Error("anyhow", "no probe was found")
MoreThanOneProbe == Error("anyhow", "more than one probe found")

\* what open() leaves behind: where it ends, and what it has called and printed
OpenResult(e, sel, cand, pr, calls, lines) ==
  [err |-> e, selector |-> sel, filtered_probes |-> cand, probe |-> pr,
   calls |-> calls, lines |-> lines]

\* open(opts), with the outcome of Probe::open() and of set_speed() given
open(open_ok, speed_ok) ==
  LET all_probes == hw
      parsed == IF IsSome(opts.probe) THEN Some(from_str(Unwrap(opts.probe))) ELSE None
      listed == << "Probe::list_all" >>
  IN
  IF IsSome(parsed) /\ ~Unwrap(parsed).ok
  THEN OpenResult(Unwrap(parsed).err, parsed, None, None, listed, <<>>)
  ELSE
    LET cands == IF IsSome(parsed)
                 THEN filter(all_probes, Unwrap(Unwrap(parsed).filter))
                 ELSE all_probes
    IN
    IF cands = <<>>
    THEN OpenResult(NoProbeFound, parsed, Some(cands), None, listed, <<>>)
    ELSE IF more_than_one(cands)
    THEN OpenResult(MoreThanOneProbe, parsed, Some(cands), None, listed, print(cands))
    ELSE IF ~open_ok
    THEN OpenResult(Error("DebugProbeError", "open"), parsed, Some(cands), None,
                    listed \o << "open" >>, <<>>)
    ELSE IF IsSome(opts.speed) /\ ~speed_ok
    THEN OpenResult(Error("DebugProbeError", "set_speed"), parsed, Some(cands),
                    Some(cands[1]), listed \o << "open", "set_speed" >>, <<>>)
    ELSE OpenResult(NoError, parsed, Some(cands), Some(cands[1]),
                    listed \o << "open" >>
                      \o (IF IsSome(opts.speed) THEN << "set_speed" >> ELSE <<>>),
                    <<>>)

Open ==
  /\ pc = "open"
  /\ \E open_ok \in BOOLEAN, speed_ok \in BOOLEAN :
       LET r == open(open_ok, speed_ok) IN
       /\ selector' = r.selector
       /\ filtered_probes' = r.filtered_probes
       /\ probe' = r.probe
       /\ log' = log \o r.calls
       /\ stdout' = stdout \o r.lines
       /\ IF r.err = NoError THEN Goto("attach") ELSE Fail(r.err)
  /\ UNCHANGED << env, opts, hw, advisory, rtt >>
  /\ UNCHANGED loopVars

(***************************************************************************)
(* attach_to_probe, after open                                             *)
(***************************************************************************)
JtagNoDevice == Error("Probe::ProbeSpecific", "JtagNoDeviceConnected")
AttachErrors ==
  { JtagNoDevice,
    Error("Probe::ProbeSpecific", "other"),
    Error("Arm", "timeout") }

\* the help text is written only on the plain attach path
attach_advice_AnyStrategy(e) ==
  /\ e.kind = "Probe::ProbeSpecific"
  /\ e.detail = "JtagNoDeviceConnected"

attach_advice(e) ==
  /\ ~opts.connect_under_reset
  /\ e.kind = "Probe::ProbeSpecific"
  /\ e.detail = "JtagNoDeviceConnected"

\* `}?;` after the if/else: the error of either attach goes to the caller
AfterAttachErr_Retry(e) == IF attach_advice(e) THEN Goto("attach") ELSE Fail(e)
AfterAttachErr(e) == Fail(e)

AttachToProbe ==
  /\ pc = "attach"
  /\ log' = Append(log, IF opts.connect_under_reset THEN "attach_under_reset" ELSE "attach")
  /\ \/ Goto("core") /\ UNCHANGED advisory
     \/ \E e \in AttachErrors :
          /\ advisory' = (advisory \/ attach_advice(e))
          /\ AfterAttachErr(e)
  /\ UNCHANGED << env, opts, hw, selector, filtered_probes, probe, stdout, rtt >>
  /\ UNCHANGED loopVars

(***************************************************************************)
(* main, up to the loop                                                    *)
(***************************************************************************)
Core ==
  /\ pc = "core"
  /\ log' = Append(log, "core(0)")
  /\ \/ Goto("rtt_attach")
     \/ Fail(Error("probe_rs", "core"))
  /\ UNCHANGED << env, opts, hw, selector, filtered_probes, probe, stdout, advisory, rtt >>
  /\ UNCHANGED loopVars

\* Rtt::attach finds the control block, with or without a channel 0 each way
RttAttach ==
  /\ pc = "rtt_attach"
  /\ log' = Append(log, "Rtt::attach")
  /\ \/ /\ \E d \in BOOLEAN, u \in BOOLEAN : rtt' = Some([down |-> d, up |-> u])
        /\ Goto("take_channels")
     \/ /\ Fail(Error("rtt", "attach"))
        /\ UNCHANGED rtt
  /\ UNCHANGED << env, opts, hw, selector, filtered_probes, probe, stdout, advisory >>
  /\ UNCHANGED loopVars

\* down_channels().take(0).unwrap(), then up_channels().take(0).unwrap()
TakeChannels_OnlyDown ==
  /\ pc = "take_channels"
  /\ IF ~Unwrap(rtt).down THEN Panic(Error("unwrap", "down_channels"))
     ELSE Goto("read_char")
  /\ UNCHANGED env
  /\ UNCHANGED setupVars
  /\ UNCHANGED loopVars

TakeChannels ==
  /\ pc = "take_channels"
  /\ IF ~Unwrap(rtt).down THEN Panic(Error("unwrap", "down_channels"))
     ELSE IF ~Unwrap(rtt).up THEN Panic(Error("unwrap", "up_channels"))
     ELSE Goto("read_char")
  /\ UNCHANGED env
  /\ UNCHANGED setupVars
  /\ UNCHANGED loopVars

(***************************************************************************)
(* read_char: terminal events and the byte each yields                     *)
(***************************************************************************)
\* a crossterm Event; ch is the code point of KeyCode::Char, 0 otherwise
Event(ty, kind, code, ch) == [type |-> ty, kind |-> kind, code |-> code, ch |-> ch]
KeyPress(code, ch) == Event("Key", "Press", code, ch)

AsciiMax == 127
\* char::as_ascii / u8::as_ascii
as_ascii_Through128(c) == IF c <= AsciiMax + 1 THEN Some(c) ELSE None
as_ascii(c) == IF c <= AsciiMax THEN Some(c) ELSE None

LineFeed == 10
CharacterTabulation == 9

\* the match of read_char on the event that was read
read_char_AnyKind(ev) ==
  IF ev.type = "Key"
  THEN CASE ev.code = "Char" -> as_ascii(ev.ch)
         [] ev.code = "Enter" -> Some(LineFeed)
         [] ev.code = "Tab" -> Some(CharacterTabulation)
         [] OTHER -> None
  ELSE None

read_char(ev) ==
  IF ev.type = "Key" /\ ev.kind = "Press"
  THEN CASE ev.code = "Char" -> as_ascii(ev.ch)
         [] ev.code = "Enter" -> Some(LineFeed)
         [] ev.code = "Tab" -> Some(CharacterTabulation)
         [] OTHER -> None
  ELSE None

\* the events the terminal delivers during a run: h, i, Enter, Esc, e-acute,
\* a key release and a window resize
Events ==
  { KeyPress("Char", 104), KeyPress("Char", 105), KeyPress("Enter", 0),
    KeyPress("Esc", 0), KeyPress("Char", 233),
    Event("Key", "Release", "Char", 104), Event("Resize", "none", "none", 0) }

\* the bytes the target firmware sends: 'A' and a non-ASCII byte
UpBytes == { 65, 128 }

(***************************************************************************)
(* The loop of main                                                        *)
(***************************************************************************)
Op(op, byte, n, ok) == [op |-> op, byte |-> byte, n |-> n, ok |-> ok]

\* read_char() returns Ok: no event within 1 ms, or one event, of evs, was read
ReadCharFrom(evs) ==
  /\ pc = "read_char"
  /\ \E e \in {None} \cup { Some(ev) : ev \in evs } :
       LET r == IF e = None THEN None ELSE read_char(Unwrap(e)) IN
       /\ IsSome(r) => Len(typed) < env.keys
       /\ event' = e
       /\ key' = r
       /\ typed' = typed \o r
       /\ tickOps' = << Op("read_char", IF IsSome(r) THEN Unwrap(r) ELSE -1, -1, TRUE) >>
       /\ Goto(IF IsSome(r) THEN "write" ELSE "read")
  /\ UNCHANGED << env, buf, count, down, upbuf, got, term >>
  /\ UNCHANGED setupVars

ReadChar == ReadCharFrom(Events)

\* crossterm::event::poll or crossterm::event::read returns Err
ReadCharErr ==
  /\ pc = "read_char"
  /\ \E c \in { "crossterm::event::poll", "crossterm::event::read()" } :
       Fail(Error("io", c))
  /\ tickOps' = << Op("read_char", -1, -1, FALSE) >>
  /\ UNCHANGED << env, key, event, buf, count, typed, down, upbuf, got, term >>
  /\ UNCHANGED setupVars

\* how many of the one byte the down channel takes: a full buffer takes none;
\* the loopback link always has room
WriteAccepts == IF env.link = "loopback" THEN {1} ELSE {0, 1}

\* after a write that returned Ok, the loop body goes on to the read
AfterWrite_NextTick == Goto("read_char")
AfterWrite_RetryUntilTaken == Goto(IF down' = down THEN "write" ELSE "read")
AfterWrite == Goto("read")

\* the `?` on a write that returned Err: main returns the error
AfterWriteErr_Ignored == Goto("read")
AfterWriteErr == Fail(Error("rtt", "write"))

\* down_channel.write(&mut core, &[char.as_u8()]) returns Ok(n)
Write ==
  /\ pc = "write"
  /\ \E n \in WriteAccepts :
       /\ down' = IF n = 1 THEN Append(down, Unwrap(key)) ELSE down
       /\ upbuf' = IF n = 1 /\ env.link = "loopback"
                   THEN Append(upbuf, Unwrap(key)) ELSE upbuf
       /\ tickOps' = Append(tickOps, Op("write", Unwrap(key), n, TRUE))
  /\ AfterWrite
  /\ UNCHANGED << env, key, event, buf, count, typed, got, term >>
  /\ UNCHANGED setupVars

WriteErr ==
  /\ pc = "write"
  /\ env.link # "loopback"
  /\ tickOps' = Append(tickOps, Op("write", Unwrap(key), 0, FALSE))
  /\ AfterWriteErr
  /\ UNCHANGED << env, key, event, buf, count, typed, down, upbuf, got, term >>
  /\ UNCHANGED setupVars

\* does the byte that was read go to the terminal
printable_MoreThanOne(c, b) == c > 1 /\ IsSome(as_ascii(b))
printable_IgnoresCount(c, b) == IsSome(as_ascii(b))
printable(c, b) == c > 0 /\ IsSome(as_ascii(b))

\* after the read: render the byte if there is one to render, then loop
AfterRead_Drain(c, b) ==
  Goto(IF printable(c, b) THEN "execute_Print"
       ELSE IF c > 0 THEN "read" ELSE "read_char")
AfterRead_BreakWhenIdle(c, b) ==
  IF c = 0 THEN pc' = "exit" /\ status' = "ok" /\ UNCHANGED err
  ELSE Goto(IF printable(c, b) THEN "execute_Print" ELSE "read_char")
AfterRead(c, b) ==
  Goto(IF printable(c, b) THEN "execute_Print" ELSE "read_char")

\* let mut buf = [0]; up_channel.read(&mut core, &mut buf) returns Ok(count)
Read ==
  /\ pc = "read"
  /\ count' = IF upbuf = <<>> THEN 0 ELSE 1
  /\ buf' = IF upbuf = <<>> THEN 0 ELSE Head(upbuf)
  /\ upbuf' = IF upbuf = <<>> THEN upbuf ELSE Tail(upbuf)
  /\ got' = IF upbuf = <<>> THEN got ELSE Append(got, Head(upbuf))
  /\ tickOps' = Append(tickOps, Op("read", buf', count', TRUE))
  /\ AfterRead(count', buf')
  /\ UNCHANGED << env, key, event, typed, down, term >>
  /\ UNCHANGED setupVars

ReadErr ==
  /\ pc = "read"
  /\ env.link # "loopback"
  /\ tickOps' = Append(tickOps, Op("read", 0, 0, FALSE))
  /\ Fail(Error("rtt", "read"))
  /\ UNCHANGED << env, key, event, buf, count, typed, down, upbuf, got, term >>
  /\ UNCHANGED setupVars

\* stdout.execute(Print(char)) returns Ok
ExecutePrint ==
  /\ pc = "execute_Print"
  /\ term' = Append(term, buf)
  /\ tickOps' = Append(tickOps, Op("execute_Print", buf, -1, TRUE))
  /\ Goto("read_char")
  /\ UNCHANGED << env, key, event, buf, count, typed, down, upbuf, got >>
  /\ UNCHANGED setupVars

ExecutePrintErr ==
  /\ pc = "execute_Print"
  /\ tickOps' = Append(tickOps, Op("execute_Print", buf, -1, FALSE))
  /\ Fail(Error("io", "ExecutableCommand::execute"))
  /\ UNCHANGED << env, key, event, buf, count, typed, down, upbuf, got, term >>
  /\ UNCHANGED setupVars

\* the target firmware puts a byte into the up channel's ring buffer
TargetEmit ==
  /\ pc \in { "read_char", "write", "read", "execute_Print" }
  /\ env.link = "target"
  /\ Len(got) + Len(upbuf) < env.up
  /\ \E b \in UpBytes : upbuf' = Append(upbuf, b)
  /\ UNCHANGED << pc, status, err, env, key, event, buf, count, typed, down, got, term, tickOps >>
  /\ UNCHANGED setupVars

(***************************************************************************)
(* Specifications                                                          *)
(***************************************************************************)
LoopInit ==
  /\ key = None /\ event = None /\ buf = 0 /\ count = 0
  /\ typed = <<>> /\ down = <<>> /\ upbuf = <<>> /\ got = <<>> /\ term = <<>>
  /\ tickOps = <<>>

SetupInit ==
  /\ selector = None /\ filtered_probes = None /\ probe = None
  /\ log = <<>> /\ stdout = <<>> /\ advisory = FALSE /\ rtt = None

\* the command lines of the whole-program runs
RunOpts ==
  { Opts(None, FALSE, None, None),
    Opts(Some("chip.yaml"), TRUE, Some(SER123), Some(4000)) }

\* the whole program, from the start of main
Init ==
  /\ pc = "lookup_probe_target" /\ status = "running" /\ err = NoError
  /\ env = Env("target", MaxKeys, MaxUp)
  /\ opts \in RunOpts
  /\ hw \in { <<>>, << ProbeA >>, << ProbeB, ProbeA >> }
  /\ SetupInit
  /\ LoopInit

Setup == LookupProbeTarget \/ Open \/ AttachToProbe \/ Core \/ RttAttach \/ TakeChannels
Loop == ReadChar \/ ReadCharErr \/ Write \/ WriteErr \/ Read \/ ReadErr
          \/ ExecutePrint \/ ExecutePrintErr
Program == Setup \/ Loop
Next == Program \/ TargetEmit

Spec == Init /\ [][Next]_vars

(***************************************************************************)
(* The ticks of the loop                                                   *)
(***************************************************************************)
InLoop == pc \in { "read_char", "write", "read", "execute_Print" }

\* the place of a call in a tick
Rank(o) ==
  CASE o.op = "read_char" -> 1
    [] o.op = "write" -> 2
    [] o.op = "read" -> 3
    [] o.op = "execute_Print" -> 4

OpsOf(name) == { i \in 1..Len(tickOps) : tickOps[i].op = name }

\* control is back at the top of the loop after a tick that ran to its end
TickDone == pc = "read_char" /\ status = "running" /\ tickOps # <<>>

\* the tick's read was made, and so was the render its byte asks for
ReadAndRenderDone ==
  /\ OpsOf("read") # {}
  /\ \A i \in OpsOf("read") :
       printable(tickOps[i].n, tickOps[i].byte) => OpsOf("execute_Print") # {}

\* C1: in every tick the key poll and the down-channel write come before the
\* up-channel read and the render, each at most once, and the loop is at its
\* top (about to start the next tick) only when the tick before has made its
\* read and, if a byte asks for it, its render.
C1_TickOrder ==
  /\ tickOps # <<>> => tickOps[1].op = "read_char"
  /\ \A i, j \in 1..Len(tickOps) : i < j => Rank(tickOps[i]) < Rank(tickOps[j])
  /\ InLoop /\ pc # "read_char" => tickOps # <<>>
  /\ TickDone => ReadAndRenderDone

\* a tick that polled a key, wrote it, read a byte and rendered it, in that order
C1_Witness ==
  /\ TickDone
  /\ [ i \in 1..Len(tickOps) |-> tickOps[i].op ]
       = << "read_char", "write", "read", "execute_Print" >>

\* C2 as stated: every tick that ends without error has made exactly one write
\* attempt and exactly one read attempt, the write first.
C2_OneWriteOneRead ==
  TickDone =>
    /\ Cardinality(OpsOf("write")) = 1
    /\ Cardinality(OpsOf("read")) = 1
    /\ \A i \in OpsOf("write"), j \in OpsOf("read") : i < j

\* C2, amended: every tick that ends without error has made exactly one read
\* attempt and at most one write attempt, exactly one if and only if the key
\* poll of the tick produced a byte, and then the write comes before the read.
C2_WriteIffKey ==
  TickDone =>
    /\ Cardinality(OpsOf("read")) = 1
    /\ Cardinality(OpsOf("write")) = (IF tickOps[1].byte # -1 THEN 1 ELSE 0)
    /\ \A i \in OpsOf("write"), j \in OpsOf("read") : i < j

\* a finished tick in which no key arrived: a read and no write
C2_Witness ==
  /\ TickDone
  /\ tickOps[1].byte = -1
  /\ OpsOf("write") = {}
  /\ OpsOf("read") # {}

Count(seq, x) == Cardinality({ i \in 1..Len(seq) : seq[i] = x })

\* C3: a failed step of the loop is the last call the program makes: the run
\* has failed, no further step of the tick or of a later tick is taken, and
\* the attach is not done again.
C3_FailureIsFatal ==
  /\ \A i \in 1..Len(tickOps) :
       ~tickOps[i].ok => i = Len(tickOps) /\ status = "failed" /\ pc = "exit"
  /\ status # "running" => pc = "exit" /\ ~ENABLED Program
  /\ Count(log, "attach") + Count(log, "attach_under_reset") <= 1

\* a tick whose write failed: the run has failed and no read was attempted
C3_Witness ==
  /\ status = "failed"
  /\ tickOps # <<>>
  /\ tickOps[Len(tickOps)].op = "write"
  /\ ~tickOps[Len(tickOps)].ok
  /\ OpsOf("read") = {}

\* C4: the program never ends successfully: while it has not failed it can
\* always take a step, in the loop a step that does not fail, and when it has
\* ended it has ended in failure.
C4_NoSuccessfulExit ==
  /\ status # "ok"
  /\ pc = "exit" <=> status \in { "failed", "panicked" }
  /\ pc # "exit" => ENABLED Program
  /\ InLoop => ENABLED (ReadChar \/ Write \/ Read \/ ExecutePrint)

\* a run that went round the loop, printed a byte, and then ended in failure
C4_Witness ==
  /\ pc = "exit" /\ status = "failed"
  /\ term # <<>>
  /\ typed # <<>>

(***************************************************************************)
(* The whole setup, on every command line and enumeration                  *)
(***************************************************************************)
ProbeLists == UNION { [ 1..n -> Probes ] : n \in 0..MaxProbes }

Str1a2b == << "1","a","2","b" >>
Str3c4d == << "3","c","4","d" >>
StrZz == << "z","z" >>
StrYy == << "y","y" >>
Str10000 == << "1","0","0","0","0" >>
StrPlusFf == << "+","F","f" >>
Colon == << ":" >>

\* the --probe arguments of the setup runs
SetupSelectors ==
  { SER123, SER9, <<>>,
    Str1a2b \o Colon \o Str3c4d,
    Str1a2b \o Colon \o Str3c4d \o Colon \o SER123,
    << "4","8","3" >> \o Colon \o Str3c4d,
    StrZz \o Colon \o StrYy,
    << "a",":","b",":","c",":","d" >> }

InitSetup ==
  /\ pc = "lookup_probe_target" /\ status = "running" /\ err = NoError
  /\ env = Env("target", MaxKeys, MaxUp)
  /\ opts \in { Opts(cdp, cur, pr, sp) :
                  cdp \in { None, Some("chip.yaml") }, cur \in BOOLEAN,
                  pr \in { None } \cup { Some(x) : x \in SetupSelectors },
                  sp \in { None, Some(4000) } }
  /\ hw \in ProbeLists
  /\ SetupInit
  /\ LoopInit

SpecSetup == InitSetup /\ [][Setup]_vars

(***************************************************************************)
(* ProbeFilter::from_str on its own                                        *)
(***************************************************************************)
PartSet == { <<>>, Str1a2b, Str3c4d, SER123, StrZz, StrYy, Str10000, StrPlusFf }

RECURSIVE join(_)
join(ps) ==
  IF Len(ps) = 1 THEN ps[1] ELSE ps[1] \o Colon \o join(Tail(ps))

Selectors ==
  { join(ps) : ps \in UNION { [ 1..n -> PartSet ] : n \in 1..MaxParts } }
    \cup SetupSelectors

InitParse ==
  /\ pc = "from_str" /\ status = "running" /\ err = NoError
  /\ env = Env("target", MaxKeys, MaxUp)
  /\ opts \in { Opts(None, FALSE, Some(x), None) : x \in Selectors }
  /\ hw = <<>>
  /\ SetupInit
  /\ LoopInit

\* let selector = probe_opt.parse()
FromStr ==
  /\ pc = "from_str"
  /\ selector' = Some(from_str(Unwrap(opts.probe)))
  /\ pc' = "parsed"
  /\ UNCHANGED << status, err, env, opts, hw, filtered_probes, probe, log, stdout,
                  advisory, rtt >>
  /\ UNCHANGED loopVars

SpecParse == InitParse /\ [][FromStr]_vars

(***************************************************************************)
(* filter() on its own, on every filter                                    *)
(***************************************************************************)
ProbeFilters ==
  { ProbeFilter(vp, ser) :
      vp \in { None, Some(<<6699, 15437>>), Some(<<1155, 15437>>), Some(<<6699, 1>>) },
      ser \in { None, Some(SER123), Some(SER9), Some(<<>>) } }

InitFilter ==
  /\ pc = "filter" /\ status = "running" /\ err = NoError
  /\ env = Env("target", MaxKeys, MaxUp)
  /\ opts = Opts(None, FALSE, None, None)
  /\ hw \in ProbeLists
  /\ selector \in { Some(FilterOk(f)) : f \in ProbeFilters }
  /\ filtered_probes = None /\ probe = None
  /\ log = <<>> /\ stdout = <<>> /\ advisory = FALSE /\ rtt = None
  /\ LoopInit

\* filter(&all_probes, &selector)
Filter ==
  /\ pc = "filter"
  /\ filtered_probes' = Some(filter(hw, Unwrap(Unwrap(selector).filter)))
  /\ pc' = "filtered"
  /\ UNCHANGED << status, err, env, opts, hw, selector, probe, log, stdout,
                  advisory, rtt >>
  /\ UNCHANGED loopVars

SpecFilter == InitFilter /\ [][Filter]_vars

(***************************************************************************)
(* The loop on a loopback link: every byte written to the down channel     *)
(* appears on the up channel, and neither the link nor the terminal fails  *)
(***************************************************************************)
\* the largest number of key bytes typed on the loopback link
MaxLoopKeys == 3

InitLoopback ==
  /\ pc = "read_char" /\ status = "running" /\ err = NoError
  /\ env = Env("loopback", MaxLoopKeys, 0)
  /\ opts = Opts(None, FALSE, None, None)
  /\ hw = << ProbeA >>
  /\ selector = None /\ filtered_probes = Some(<< ProbeA >>) /\ probe = Some(ProbeA)
  /\ log = << "get_target_by_name", "Probe::list_all", "open", "attach", "core(0)",
              "Rtt::attach" >>
  /\ stdout = <<>> /\ advisory = FALSE
  /\ rtt = Some([down |-> TRUE, up |-> TRUE])
  /\ LoopInit

LoopbackNext == ReadChar \/ Write \/ Read \/ ExecutePrint

SpecLoopback == InitLoopback /\ [][LoopbackNext]_vars /\ WF_vars(LoopbackNext)

(***************************************************************************)
(* The loopback run                                                        *)
(***************************************************************************)
IsPrefix(a, b) == Len(a) <= Len(b) /\ SubSeq(b, 1, Len(a)) = a

\* nothing is lost, doubled or out of order on the way down and back
EchoInOrder ==
  /\ IsPrefix(down, typed)
  /\ IsPrefix(term, down)
  /\ pc = "read_char" => down = typed /\ term = down

\* C5: on a loopback link the down channel receives exactly the bytes of the
\* keys typed, in typed order, the terminal shows a prefix of them, all of
\* them once the tick is over, and every byte typed is eventually shown.
C5_LoopbackEcho ==
  /\ []EchoInOrder
  /\ \A n \in 1..MaxLoopKeys : (Len(typed) >= n) ~> (Len(term) >= n)

\* h, i, Enter were typed: the down channel got 0x68 0x69 0x0A and the
\* terminal shows "hi\n"
C5_Witness ==
  /\ down = << 104, 105, 10 >>
  /\ term = << 104, 105, 10 >>

(***************************************************************************)
(* Runs of the whole program on every sort of command line                 *)
(***************************************************************************)
MaxRunKeys == 1
MaxRunUp == 1

\* with and without a chip description, reset, speed; no selector, one that
\* parses and one that does not
InitRun ==
  /\ pc = "lookup_probe_target" /\ status = "running" /\ err = NoError
  /\ env = Env("target", MaxRunKeys, MaxRunUp)
  /\ opts \in { Opts(cdp, cur, pr, sp) :
                 cdp \in { None, Some("chip.yaml") }, cur \in BOOLEAN,
                 pr \in { None, Some(SER123), Some(StrZz \o Colon \o StrYy) },
                 sp \in { None, Some(4000) } }
  /\ hw \in { <<>>, << ProbeA >>, << ProbeB, ProbeA >> }
  /\ SetupInit
  /\ LoopInit

SpecRun == InitRun /\ [][Next]_vars

(***************************************************************************)
(* read_char alone, on every sort of terminal event                        *)
(***************************************************************************)
\* presses of a, space, BEL, DEL, U+0080, e-acute, Enter, Tab, Esc, F1 and
\* Up; repeats and releases of a, Enter and Tab; events that are not keys
AnyEvents ==
  { KeyPress("Char", 97), KeyPress("Char", 32), KeyPress("Char", 7),
    KeyPress("Char", 127), KeyPress("Char", 128), KeyPress("Char", 233),
    KeyPress("Enter", 0), KeyPress("Tab", 0), KeyPress("Esc", 0),
    KeyPress("F1", 0), KeyPress("Up", 0),
    Event("Key", "Repeat", "Char", 97), Event("Key", "Release", "Char", 97),
    Event("Key", "Repeat", "Enter", 0), Event("Key", "Release", "Tab", 0),
    Event("Resize", "none", "none", 0), Event("Mouse", "none", "none", 0),
    Event("Paste", "none", "none", 0), Event("FocusGained", "none", "none", 0) }

ReadCharAny == ReadCharFrom(AnyEvents)

\* at the loop, on a target that sends nothing
InitKey ==
  /\ pc = "read_char" /\ status = "running" /\ err = NoError
  /\ env = Env("target", MaxKeys, 0)
  /\ opts = Opts(None, FALSE, None, None)
  /\ hw = << ProbeA >>
  /\ selector = None /\ filtered_probes = Some(<< ProbeA >>) /\ probe = Some(ProbeA)
  /\ log = <<>> /\ stdout = <<>> /\ advisory = FALSE
  /\ rtt = Some([down |-> TRUE, up |-> TRUE])
  /\ LoopInit

KeyNext == ReadCharAny \/ Write \/ Read

SpecKey == InitKey /\ [][KeyNext]_vars

(***************************************************************************)
(* Probe selection                                                         *)
(***************************************************************************)
\* matches(probe), as the ProbeFilter is described
Matches(f, p) ==
  /\ \/ f.vid_pid = None
     \/ /\ p.vendor_id = f.vid_pid[1][1]
        /\ p.product_id = f.vid_pid[1][2]
  /\ \/ f.serial = None
     \/ /\ p.serial_number # None
        /\ p.serial_number[1] = f.serial[1]

\* open() has run to its end
OpenRan == pc \notin { "lookup_probe_target", "open" } /\ Count(log, "Probe::list_all") = 1
\* --probe is absent, or it parses
SelectorOk == opts.probe = None \/ from_str(opts.probe[1]).ok
\* the places in the enumeration of the probes that selection is to choose from
Candidates ==
  IF opts.probe = None THEN 1..Len(hw)
  ELSE { i \in 1..Len(hw) : Matches(from_str(opts.probe[1]).filter[1], hw[i]) }
ProbeOpened == Count(log, "open") > 0
SpeedSet == Count(log, "set_speed") > 0

\* C6: selection opens a probe exactly when there is exactly one candidate,
\* and then that one; with no candidate it fails with "no probe was found",
\* with more than one with "more than one probe found", and in both cases
\* it opens no probe and sets no speed.
C6_ExactlyOne ==
  OpenRan =>
    /\ ProbeOpened <=> (SelectorOk /\ Cardinality(Candidates) = 1)
    /\ probe # None => \A i \in Candidates : probe = Some(hw[i])
    /\ SelectorOk /\ Candidates = {} =>
         status = "failed" /\ err = NoProbeFound /\ ~ProbeOpened /\ ~SpeedSet
                           /\ probe = None
    /\ SelectorOk /\ Cardinality(Candidates) > 1 =>
         status = "failed" /\ err = MoreThanOneProbe /\ ~ProbeOpened /\ ~SpeedSet
                           /\ probe = None

\* two probes match the selector: selection has failed and has opened nothing
C6_Witness ==
  /\ OpenRan
  /\ opts.probe # None /\ opts.speed # None
  /\ SelectorOk /\ Cardinality(Candidates) = 2
  /\ err = MoreThanOneProbe
  /\ ~ProbeOpened

\* the k-th smallest element of a set of numbers
Kth(S, k) == CHOOSE i \in S : Cardinality({ j \in S : j < i }) = k - 1

\* C7: the candidates of selection are the enumerated probes that match the
\* filter, each as often as enumerated and in enumeration order, none else;
\* without --probe they are the whole enumeration.
C7_CandidatesAreMatches ==
  filtered_probes # None =>
    LET cands == filtered_probes[1] IN
    /\ Len(cands) = Cardinality(Candidates)
    /\ \A k \in 1..Len(cands) : cands[k] = hw[Kth(Candidates, k)]
    /\ opts.probe = None => cands = hw

\* a selector that keeps one of two enumerated probes and drops the other
C7_Witness ==
  /\ filtered_probes # None
  /\ opts.probe # None
  /\ Len(hw) = 2
  /\ Len(filtered_probes[1]) = 1
  /\ filtered_probes[1][1] = hw[2]

\* C8: the filter keeps a probe exactly when (it has no vid/pid, or both ids
\* of the probe equal its own) and (it has no serial, or the probe has a
\* serial equal to its own); so a probe without a serial is never kept by a
\* filter that has one, and the filter with no field set keeps every probe.
C8_MatchRule ==
  pc = "filtered" =>
    LET f == selector[1].filter[1]
        kept == filtered_probes[1]
    IN
    /\ \A i \in 1..Len(hw) : (hw[i] \in Range(kept)) <=> Matches(f, hw[i])
    /\ f.serial # None => \A p \in Range(kept) : p.serial_number # None
    /\ f = ProbeFilter(None, None) => kept = hw

\* a probe without a serial whose ids are the filter's is dropped because the
\* filter has a serial
C8_Witness ==
  /\ pc = "filtered"
  /\ selector[1].filter[1] = ProbeFilter(Some(<<6699, 15437>>), Some(SER123))
  /\ hw = << ProbeC, ProbeA >>
  /\ filtered_probes[1] = << ProbeA >>

(***************************************************************************)
(* The selector grammar, read off the string                               *)
(***************************************************************************)
Colons(s) == { i \in 1..Len(s) : s[i] = ":" }
NParts(s) == Cardinality(Colons(s)) + 1
\* the k-th of the colon-separated parts of s
PartAt(s, k) ==
  LET from == IF k = 1 THEN 1 ELSE Kth(Colons(s), k - 1) + 1
      to == IF k = NParts(s) THEN Len(s) ELSE Kth(Colons(s), k) - 1
  IN SubSeq(s, from, to)

HexChars == { "0","1","2","3","4","5","6","7","8","9",
              "a","b","c","d","e","f","A","B","C","D","E","F" }
\* a hexadecimal number: one or more hexadecimal digits
IsHex(p) == p # <<>> /\ \A i \in 1..Len(p) : p[i] \in HexChars
DigitValue(c) ==
  CHOOSE v \in 0..15 : HexDigits[v + 1] = c \/ HexDigitsUpper[v + 1] = c
RECURSIVE HexValue(_)
HexValue(p) ==
  IF p = <<>> THEN 0
  ELSE 16 * HexValue(SubSeq(p, 1, Len(p) - 1)) + DigitValue(p[Len(p)])

Parsed == pc = "parsed"
Input == opts.probe[1]
Result == selector[1]

\* C9 as stated: one part gives the serial alone; two hexadecimal parts give
\* vid/pid with no serial; three parts whose first two are hexadecimal give
\* vid/pid and the third part as serial.
C9_HexPartsParse ==
  Parsed =>
    /\ NParts(Input) = 1 =>
         Result.ok /\ Result.filter = Some(ProbeFilter(None, Some(Input)))
    /\ NParts(Input) = 2 /\ IsHex(PartAt(Input, 1)) /\ IsHex(PartAt(Input, 2)) =>
         /\ Result.ok
         /\ Result.filter = Some(ProbeFilter(
              Some(<<HexValue(PartAt(Input, 1)), HexValue(PartAt(Input, 2))>>), None))
    /\ NParts(Input) = 3 /\ IsHex(PartAt(Input, 1)) /\ IsHex(PartAt(Input, 2)) =>
         /\ Result.ok
         /\ Result.filter = Some(ProbeFilter(
              Some(<<HexValue(PartAt(Input, 1)), HexValue(PartAt(Input, 2))>>),
              Some(PartAt(Input, 3))))

\* a hexadecimal number that fits in 16 bits
IsHex16(p) == IsHex(p) /\ HexValue(p) <= U16Max

\* C9, amended: as C9, for vendor and product parts that are hexadecimal
\* numbers of at most 0xFFFF.
C9_Hex16PartsParse ==
  Parsed =>
    /\ NParts(Input) = 1 =>
         Result.ok /\ Result.filter = Some(ProbeFilter(None, Some(Input)))
    /\ NParts(Input) = 2 /\ IsHex16(PartAt(Input, 1)) /\ IsHex16(PartAt(Input, 2)) =>
         /\ Result.ok
         /\ Result.filter = Some(ProbeFilter(
              Some(<<HexValue(PartAt(Input, 1)), HexValue(PartAt(Input, 2))>>), None))
    /\ NParts(Input) = 3 /\ IsHex16(PartAt(Input, 1)) /\ IsHex16(PartAt(Input, 2)) =>
         /\ Result.ok
         /\ Result.filter = Some(ProbeFilter(
              Some(<<HexValue(PartAt(Input, 1)), HexValue(PartAt(Input, 2))>>),
              Some(PartAt(Input, 3))))

\* "1a2b:3c4d:SER123" parsed to vid 0x1a2b, pid 0x3c4d, serial SER123
C9_Witness ==
  /\ Parsed
  /\ Input = Str1a2b \o Colon \o Str3c4d \o Colon \o SER123
  /\ Result.ok
  /\ Result.filter = Some(ProbeFilter(Some(<<6699, 15437>>), Some(SER123)))

\* the vendor or the product part is not a hexadecimal number
NotHexIds(s) ==
  NParts(s) \in {2, 3} /\ (~IsHex(PartAt(s, 1)) \/ ~IsHex(PartAt(s, 2)))

\* C10 as stated: a selector of more than three parts, or one whose vendor or
\* product part is not a hexadecimal number, fails to parse, with one and
\* the same error ("invalid probe filter") and no filter.
C10_OneFormatError ==
  Parsed /\ (NParts(Input) \notin 1..3 \/ NotHexIds(Input)) =>
    ~Result.ok /\ Result.filter = None /\ Result.err = InvalidProbeFilter

\* what u16::from_str_radix(p, 16) takes: a hexadecimal number of at most
\* 0xFFFF, with or without one "+" before it
Unsigned(p) == IF p # <<>> /\ p[1] = "+" THEN Tail(p) ELSE p
IsU16Hex(p) == IsHex16(Unsigned(p))

\* C10, amended: a selector of more than three parts fails with "invalid
\* probe filter"; one of two or three parts whose vendor or product part
\* is not taken by u16::from_str_radix fails with that function's
\* ParseIntError, another error; in both cases there is no filter.
C10_ParseFailures ==
  Parsed =>
    /\ NParts(Input) \notin 1..3 =>
         ~Result.ok /\ Result.filter = None /\ Result.err = InvalidProbeFilter
    /\ NParts(Input) \in {2, 3}
         /\ (~IsU16Hex(PartAt(Input, 1)) \/ ~IsU16Hex(PartAt(Input, 2))) =>
         /\ ~Result.ok /\ Result.filter = None
         /\ Result.err.kind = "ParseIntError"
         /\ Result.err # InvalidProbeFilter

\* "zz:yy" failed to parse, with the ParseIntError of an invalid digit
C10_Witness ==
  /\ Parsed
  /\ Input = StrZz \o Colon \o StrYy
  /\ ~Result.ok
  /\ Result.err = ParseIntError("InvalidDigit")

(***************************************************************************)
(* What selection prints                                                   *)
(***************************************************************************)
\* the lines of the probe list, without its heading
Entries == SelectSeq(stdout, LAMBDA l : l.link # None)
Headings == SelectSeq(stdout, LAMBDA l : l.link = None)

\* C11: when selection fails because more than one probe matches, it has
\* printed, under one heading, one line for each candidate and for nothing
\* else, numbered 0, 1, ... in candidate order; when it opens a probe or
\* fails with "no probe was found", or has not run, it has printed nothing.
C11_AmbiguousListed ==
  IF OpenRan /\ err = MoreThanOneProbe
  THEN /\ Headings = << Line("the following probes were found:", -1, None) >>
       /\ stdout = Headings \o Entries
       /\ Len(Entries) = Cardinality(Candidates)
       /\ \A k \in 1..Len(Entries) :
            /\ Entries[k].num = k - 1
            /\ Entries[k].link = Some(hw[Kth(Candidates, k)])
  ELSE stdout = <<>>

\* two enumerated probes match the serial: both are listed, as 0 and 1
C11_Witness ==
  /\ OpenRan
  /\ err = MoreThanOneProbe
  /\ opts.probe = Some(SER123)
  /\ hw = << ProbeD, ProbeA >>
  /\ Len(stdout) = 3
  /\ stdout[2].num = 0 /\ stdout[2].link = Some(ProbeD)
  /\ stdout[3].num = 1 /\ stdout[3].link = Some(ProbeA)

(***************************************************************************)
(* Attaching                                                               *)
(***************************************************************************)
Attaches == Count(log, "attach") + Count(log, "attach_under_reset")
\* the run ended in a failed attach
AttachFailed ==
  /\ status = "failed"
  /\ log # <<>>
  /\ log[Len(log)] \in { "attach", "attach_under_reset" }

\* C12 as stated: the connect-under-reset help is written exactly when the
\* attach fails with "no device on the JTAG chain", with either strategy.
C12_AdviceOnEitherPath ==
  advisory <=> (AttachFailed /\ err = JtagNoDevice)

\* C12, amended: the connect-under-reset help is written exactly when the
\* plain attach fails with "no device on the JTAG chain"; it is not written
\* when the attach under reset fails, whatever the failure, nor for another
\* failure of the plain attach, nor when the attach succeeds.
C12_AdviceOnPlainPath ==
  advisory <=> (AttachFailed /\ err = JtagNoDevice /\ ~opts.connect_under_reset)

\* the plain attach found no device on the JTAG chain and the help was written
C12_Witness ==
  /\ log # <<>> /\ log[Len(log)] = "attach"
  /\ ~opts.connect_under_reset
  /\ err = JtagNoDevice
  /\ advisory

\* C13: a run attaches at most once, and once if it gets past attaching;
\* under reset exactly when --connect-under-reset is set; a failed attach
\* ends the run with the error the attach gave, the help written or not,
\* with no session (no core taken, no RTT) and nothing more to do.
C13_AttachOnce ==
  /\ Attaches <= 1
  /\ pc \in { "core", "rtt_attach", "take_channels", "read_char" } => Attaches = 1
  /\ Count(log, "attach_under_reset") > 0 => opts.connect_under_reset
  /\ Count(log, "attach") > 0 => ~opts.connect_under_reset
  /\ AttachFailed =>
       /\ pc = "exit"
       /\ err \in AttachErrors
       /\ advisory => err = JtagNoDevice
       /\ Count(log, "core(0)") = 0 /\ rtt = None
       /\ ~ENABLED Setup

\* the help was written, and the run ended after its one attach with the
\* JTAG error
C13_Witness ==
  /\ AttachFailed
  /\ advisory
  /\ Attaches = 1
  /\ status = "failed" /\ pc = "exit"
  /\ err = JtagNoDevice

(***************************************************************************)
(* Binding channel 0                                                       *)
(***************************************************************************)
\* Rtt::attach returned, and channel 0 is missing in a direction
ChannelMissing == rtt # None /\ (~rtt[1].down \/ ~rtt[1].up)
\* nothing of the loop has happened: no key polled, no channel read or written
LoopUntouched ==
  /\ tickOps = <<>>
  /\ typed = <<>> /\ down = <<>> /\ got = <<>> /\ term = <<>>
  /\ key = None

\* C14: when Rtt::attach leaves channel 0 missing in a direction, the run
\* ends at the binding (the unwrap of the missing channel, the down one
\* first), before the loop: no key is polled, no channel is read or
\* written, Rtt::attach is not called again, and nothing more is done.
C14_MissingChannelIsFatal ==
  ChannelMissing =>
    /\ pc \in { "take_channels", "exit" }
    /\ LoopUntouched
    /\ Count(log, "Rtt::attach") = 1
    /\ pc = "take_channels" => status = "running"
    /\ pc = "exit" =>
         /\ status = "panicked"
         /\ err = IF ~rtt[1].down THEN Error("unwrap", "down_channels")
                                  ELSE Error("unwrap", "up_channels")
         /\ ~ENABLED Next

\* the down channel 0 is there, the up channel 0 is not: the run has ended
C14_Witness ==
  /\ rtt = Some([down |-> TRUE, up |-> FALSE])
  /\ pc = "exit"
  /\ status = "panicked"
  /\ LoopUntouched

(***************************************************************************)
(* The byte of a terminal event                                            *)
(***************************************************************************)
\* read_char() has returned in this tick
PollKeyRan == tickOps # <<>> /\ tickOps[1].ok
\* the byte of what the terminal delivered, if the characters in chars are
\* the ones that have a byte
Yields(e, chars) ==
  IF e = None THEN None
  ELSE LET ev == e[1] IN
       IF ev.type = "Key" /\ ev.kind = "Press"
       THEN IF ev.code = "Char" /\ ev.ch \in chars THEN Some(ev.ch)
            ELSE IF ev.code = "Enter" THEN Some(10)
            ELSE IF ev.code = "Tab" THEN Some(9)
            ELSE None
       ELSE None

\* C15 as stated: the press of a printable ASCII character (0x20..0x7E)
\* yields its byte, of Enter 0x0A, of Tab 0x09; every other event, a press
\* of a non-printable character among them, and no event, yield no byte.
C15_PrintableOnly ==
  PollKeyRan => key = Yields(event, 32..126)

\* C15, amended: the press of any ASCII character (0x00..0x7F), printable
\* or not, yields its byte, of Enter 0x0A, of Tab 0x09; every other event
\* (another key, a non-ASCII character, a repeat or release, an event that
\* is no key event) and no event within the timeout yield no byte.
C15_AsciiOnly ==
  PollKeyRan => key = Yields(event, 0..127)

\* the press of "a" gave 0x61
C15_Witness ==
  /\ PollKeyRan
  /\ event = Some(KeyPress("Char", 97))
  /\ key = Some(97)

(***************************************************************************)
(* What reaches the terminal                                               *)
(***************************************************************************)
\* the bytes of seq below 0x80, in order
Ascii(seq) == SelectSeq(seq, LAMBDA b : b < 128)

\* C16: whenever the loop is at the top of a tick, the terminal shows the
\* bytes read from the up channel so far without those of 0x80 and above,
\* in the order read; an ASCII byte is printed once, in the tick that read
\* it (between the read and the print it is the one byte still to come),
\* and a byte of 0x80 or above is dropped: the tick ends without a print
\* and without an error.
C16_TerminalIsAsciiOfRead ==
  /\ InLoop /\ status = "running" /\ pc # "execute_Print" => term = Ascii(got)
  /\ pc = "execute_Print" => buf < 128 /\ Append(term, buf) = Ascii(got)
  /\ TickDone =>
       \A i \in OpsOf("read") :
         tickOps[i].n > 0 =>
           IF tickOps[i].byte < 128
           THEN /\ Cardinality(OpsOf("execute_Print")) = 1
                /\ \A j \in OpsOf("execute_Print") :
                     tickOps[j].byte = tickOps[i].byte /\ tickOps[j].ok
           ELSE OpsOf("execute_Print") = {}

\* 0x80 and then 0x41 were read: the terminal shows "A" alone
C16_Witness ==
  /\ TickDone
  /\ got = << 128, 65 >>
  /\ term = << 65 >>

\* renderByte(b): what b puts on the terminal
renderByte(b) == IF b < 128 THEN << b >> ELSE <<>>
\* the bytes the prints of this tick put on the terminal
Printed ==
  LET RECURSIVE P(_)
      P(i) == IF i > Len(tickOps) THEN <<>>
              ELSE IF tickOps[i].op = "execute_Print"
                   THEN << tickOps[i].byte >> \o P(i + 1)
                   ELSE P(i + 1)
  IN P(1)

\* C17: a tick polls the key once; it writes to the down channel only if the
\* poll gave a byte, and then that one byte; a tick that ends without error
\* has written exactly once if the poll gave a byte and not at all if not,
\* has read once, at most one byte, and has rendered the byte read if the
\* read returned a count above 0 and nothing if it returned 0.
C17_TickCalls ==
  /\ tickOps # <<>> => Cardinality(OpsOf("read_char")) = 1
  /\ \A i \in OpsOf("write") :
       /\ tickOps[1].byte # -1
       /\ tickOps[i].byte = tickOps[1].byte
       /\ tickOps[i].n \in { 0, 1 }
  /\ TickDone =>
       /\ Cardinality(OpsOf("write")) = (IF tickOps[1].byte # -1 THEN 1 ELSE 0)
       /\ Cardinality(OpsOf("read")) = 1
       /\ \A i \in OpsOf("read") :
            /\ tickOps[i].n \in { 0, 1 }
            /\ Printed = IF tickOps[i].n > 0 THEN renderByte(tickOps[i].byte) ELSE <<>>

\* a tick that polled "h", wrote it, read 0x80 and so printed nothing
C17_Witness ==
  /\ TickDone
  /\ tickOps = << Op("read_char", 104, -1, TRUE), Op("write", 104, 1, TRUE),
                  Op("read", 128, 1, TRUE) >>

(***************************************************************************)
(* What reaches the down channel                                           *)
(***************************************************************************)
\* a is b with some elements left out
RECURSIVE IsSubseq(_, _)
IsSubseq(a, b) ==
  IF a = <<>> THEN TRUE
  ELSE IF b = <<>> THEN FALSE
  ELSE IF Head(a) = Head(b) THEN IsSubseq(Tail(a), Tail(b))
  ELSE IsSubseq(a, Tail(b))

\* this step is a call of down_channel.write
WriteStep ==
  /\ pc = "write"
  /\ Len(tickOps') = Len(tickOps) + 1
  /\ tickOps'[Len(tickOps')].op = "write"
\* the write call of this step: its byte, the count and whether it returned Ok
WriteCall == tickOps'[Len(tickOps')]

\* a write offers the byte just polled, and a write that takes nothing loses it
OfferStep ==
  /\ WriteStep =>
       /\ tickOps = << Op("read_char", typed[Len(typed)], -1, TRUE) >>
       /\ WriteCall.byte = typed[Len(typed)]
       /\ typed' = typed
  /\ (WriteStep /\ WriteCall.ok /\ WriteCall.n = 0) =>
       /\ down' = down
       /\ status' = "running" /\ err' = NoError
       /\ pc' = "read"
  /\ down' # down =>
       /\ WriteStep
       /\ down' = Append(down, typed[Len(typed)])

\* C18: the down channel is written only right after the key poll of the
\* tick and with the byte that poll gave, the last byte typed; a write that
\* takes no byte returns Ok, leaves the channel as it was and goes on to the
\* read, and the channel grows by nothing but the byte just polled: so what
\* the down channel has taken is what was typed with some bytes left out.
C18_OfferedOnce ==
  /\ [](IsSubseq(down, typed))
  /\ [][OfferStep]_vars

\* "h" was dropped by a full down channel, "i" after it was taken
C18_Witness ==
  /\ TickDone
  /\ typed = << 104, 105 >>
  /\ down = << 105 >>

(***************************************************************************)
(* The order of setup                                                      *)
(***************************************************************************)
\* the calls of a run that reaches the loop, in order
Pipeline ==
  (IF opts.chip_description_path # None
   THEN << "fs::File::open", "add_target_from_yaml" >> ELSE <<>>)
  \o << "get_target_by_name", "Probe::list_all", "open" >>
  \o (IF opts.speed # None THEN << "set_speed" >> ELSE <<>>)
  \o << IF opts.connect_under_reset THEN "attach_under_reset" ELSE "attach" >>
  \o << "core(0)", "Rtt::attach" >>

\* C19: the calls of setup are made in one order: descriptor registration
\* (if a description is given), chip lookup, probe enumeration, open, speed
\* (if given), attach, core 0, RTT attach; a run that has failed has ended
\* and does nothing more; after a failed chip lookup or selector parse no
\* probe is opened, after a failed open or speed-set nothing is attached,
\* the speed is set only on an opened probe, and the loop, with its first
\* key poll, channel write or read, comes only after all of setup with
\* both channels bound.
C19_FailStopPipeline ==
  /\ IsPrefix(log, Pipeline)
  /\ status # "running" => pc = "exit" /\ ~ENABLED Next
  /\ err.kind = "lookup" =>
       Count(log, "Probe::list_all") = 0 /\ ~ProbeOpened /\ Attaches = 0
  /\ OpenRan /\ ~SelectorOk =>
       status = "failed" /\ err = from_str(opts.probe[1]).err
         /\ ~ProbeOpened /\ ~SpeedSet /\ Attaches = 0
  /\ err.kind = "DebugProbeError" =>
       status = "failed" /\ Attaches = 0 /\ Count(log, "core(0)") = 0 /\ rtt = None
  /\ SpeedSet => opts.speed # None /\ probe # None /\ ProbeOpened
  /\ InLoop \/ ~LoopUntouched =>
       /\ log = Pipeline
       /\ rtt = Some([down |-> TRUE, up |-> TRUE])

\* the speed could not be set on the opened probe: nothing was attached
C19_Witness ==
  /\ status = "failed"
  /\ err = Error("DebugProbeError", "set_speed")
  /\ opts.chip_description_path # None
  /\ log = << "fs::File::open", "add_target_from_yaml", "get_target_by_name",
              "Probe::list_all", "open", "set_speed" >>

(***************************************************************************)
(* A parsed filter is never the empty one                                  *)
(***************************************************************************)
\* C20: a selector that parses gives a filter with a serial, a vid/pid or
\* both, never the filter with no field, which keeps every probe: there is
\* a probe the filter does not keep; the empty selector gives the filter
\* of the empty serial, and a selector with an empty last part the filter
\* of its ids and the empty serial.
C20_ParsedFilterHasField ==
  Parsed /\ Result.ok =>
    LET f == Result.filter[1] IN
    /\ f.serial # None \/ f.vid_pid # None
    /\ f # ProbeFilter(None, None)
    /\ \E p \in Probes : ~Matches(f, p)
    /\ Input = <<>> => f = ProbeFilter(None, Some(<<>>))
    /\ NParts(Input) = 3 /\ PartAt(Input, 3) = <<>> =>
         f.vid_pid # None /\ f.serial = Some(<<>>)

\* the empty selector parsed to the filter of the empty serial, which keeps
\* no probe that has a serial of its own
C20_Witness ==
  /\ Parsed
  /\ Input = <<>>
  /\ Result.ok
  /\ Result.filter = Some(ProbeFilter(None, Some(<<>>)))
  /\ ~Matches(Result.filter[1], ProbeA)

=============================================================================
